---- MODULE Spec2Model ----
(***************************************************************************)
(* The L3GD20 gyroscope driver (src/src/lib.rs): the register map, the     *)
(* three register accesses (read_register, read_registers,                 *)
(* write_register), the bit-field codec of the configuration values, and   *)
(* the public operations built from them.  One register access is three    *)
(* steps (chip-select low, one bus call, chip-select high); a bus call     *)
(* either succeeds or reports a transport error.                           *)
(***************************************************************************)
EXTENDS Integers, Sequences, FiniteSets, TLC

VARIABLES
    device,     \* what answers the bus: "registers" (a register file) or "scripted"
    regs,       \* the device's register file, address -> byte
    handle,     \* "none" | "constructing" | "ready" | "dropped"
    cs,         \* the chip-select pin: "high" (deasserted) | "low" (asserted)
    op,         \* the public operation in progress or last returned
    arg,        \* its argument (a variant, for the setters)
    pc,         \* "idle" | "set_low" | "bus" | "set_high"
    acc,        \* the register access in progress
    buffer,     \* the access's buffer after the bus call
    result,     \* what the operation returned
    log,        \* bus calls issued by the current operation, in order
    firstBus,   \* the first bus call ever issued on this bus
    selCalls,   \* bus calls issued since chip-select last went from high to low
    faults,     \* whether a transport call has failed in this run
    lastSet,    \* per field, the variant last stored by a successful setter
    lastAll     \* what all() last returned against the register file

vars == <<device, regs, handle, cs, op, arg, pc, acc, buffer, result, log,
          firstBus, selCalls, faults, lastSet, lastAll>>

----------------------------------------------------------------------------
(* Fixed-width integer arithmetic.                                         *)

RECURSIVE BitAnd(_, _)
BitAnd(a, b) ==
    IF a = 0 \/ b = 0 THEN 0
    ELSE (a % 2) * (b % 2) + 2 * BitAnd(a \div 2, b \div 2)

RECURSIVE BitOr(_, _)
BitOr(a, b) ==
    IF a = 0 THEN b
    ELSE IF b = 0 THEN a
    ELSE (IF a % 2 = 1 \/ b % 2 = 1 THEN 1 ELSE 0) + 2 * BitOr(a \div 2, b \div 2)

BitNot8(a) == 255 - a

Shl8(x, n) == (x * (2 ^ n)) % 256

Shl16(x, n) == (x * (2 ^ n)) % 65536

Shr8(x, n) == x \div (2 ^ n)

AddU16(a, b) == (a + b) % 65536

AsI16(u) == IF u >= 32768 THEN u - 65536 ELSE u

AsI8(u) == IF u >= 128 THEN u - 256 ELSE u

Byte == 0 .. 255

\* bytes[i] of the source: buffers are indexed from 0 there
At(bytes, i) == bytes[i + 1]

----------------------------------------------------------------------------
(* Register map and framing flags.                                         *)

WHO_AM_I == 15

CTRL_REG1 == 32

CTRL_REG4 == 35

OUT_TEMP == 38

STATUS_REG == 39

OUT_X_L == 40

OUT_X_H == 41

OUT_Y_L == 42

OUT_Y_H == 43

OUT_Z_L == 44

OUT_Z_H == 45

READ == 128

WRITE == 0

MULTI == 64

SINGLE == 0

\* the byte new() writes to CTRL_REG1: power up, all axes enabled
PowerUpAllAxes == 15

----------------------------------------------------------------------------
(* Bit-field codec: BitValue and the from_u8 decoders.                     *)

Unreachable == "unreachable!"

OdrVariants == {"Hz95", "Hz190", "Hz380", "Hz760"}

ScaleVariants == {"Dps250", "Dps500", "Dps2000"}

BandwidthVariants == {"Low", "Medium", "High", "Maximum"}

OdrValue(v) ==
    CASE v = "Hz95" -> 0
      [] v = "Hz190" -> 1
      [] v = "Hz380" -> 2
      [] v = "Hz760" -> 3

ScaleValue(v) ==
    CASE v = "Dps250" -> 0
      [] v = "Dps500" -> 1
      [] v = "Dps2000" -> 3

BandwidthValue(v) ==
    CASE v = "Low" -> 0
      [] v = "Medium" -> 1
      [] v = "High" -> 2
      [] v = "Maximum" -> 3

OdrWidth == 2

OdrShift == 6

ScaleWidth == 2

ScaleShift == 4

BandwidthWidth == 2

BandwidthShift == 4

\* BitValue::mask(): (1 << width) - 1
BitValueMask(width) == (Shl8(1, width) - 1) % 256

OdrFromU8(from) ==
    LET x == BitAnd(Shr8(from, OdrShift), BitValueMask(OdrWidth))
    IN  CASE x = OdrValue("Hz95") -> "Hz95"
          [] x = OdrValue("Hz190") -> "Hz190"
          [] x = OdrValue("Hz380") -> "Hz380"
          [] x = OdrValue("Hz760") -> "Hz760"
          [] OTHER -> Unreachable

ScaleFromU8NoSpecialCase(from) ==
    LET x == BitAnd(Shr8(from, ScaleShift), BitValueMask(ScaleWidth))
    IN  CASE x = ScaleValue("Dps250") -> "Dps250"
          [] x = ScaleValue("Dps500") -> "Dps500"
          [] x = ScaleValue("Dps2000") -> "Dps2000"
          [] OTHER -> Unreachable

ScaleFromU8(from) ==
    LET x == BitAnd(Shr8(from, ScaleShift), BitValueMask(ScaleWidth))
    IN  CASE x = ScaleValue("Dps250") -> "Dps250"
          [] x = ScaleValue("Dps500") -> "Dps500"
          [] x = ScaleValue("Dps2000") -> "Dps2000"
          [] x = 2 -> "Dps2000"
          [] OTHER -> Unreachable

BandwidthFromU8(from) ==
    LET x == BitAnd(Shr8(from, BandwidthShift), BitValueMask(BandwidthWidth))
    IN  CASE x = BandwidthValue("Low") -> "Low"
          [] x = BandwidthValue("Medium") -> "Medium"
          [] x = BandwidthValue("High") -> "High"
          [] x = BandwidthValue("Maximum") -> "Maximum"
          [] OTHER -> Unreachable

StatusFromU8(from) ==
    [overrun   |-> BitAnd(from, 128) # 0,
     z_overrun |-> BitAnd(from, 64) # 0,
     y_overrun |-> BitAnd(from, 32) # 0,
     x_overrun |-> BitAnd(from, 16) # 0,
     new_data  |-> BitAnd(from, 8) # 0,
     z_new     |-> BitAnd(from, 4) # 0,
     y_new     |-> BitAnd(from, 2) # 0,
     x_new     |-> BitAnd(from, 1) # 0]

\* one axis: (low as u16 + ((high as u16) << 8)) as i16
I16FromPairBigEndian(low, high) == AsI16(AddU16(high, Shl16(low, 8)))

I16FromPair(low, high) == AsI16(AddU16(low, Shl16(high, 8)))

AllDecodeFromByte2(bytes) ==
    [gyro |-> [x |-> I16FromPair(At(bytes, 2), At(bytes, 3)),
               y |-> I16FromPair(At(bytes, 4), At(bytes, 5)),
               z |-> I16FromPair(At(bytes, 6), At(bytes, 7))],
     temp |-> AsI8(At(bytes, 1))]

\* all(): the Measurements built from the 9-byte burst
AllDecode(bytes) ==
    [gyro |-> [x |-> I16FromPair(At(bytes, 3), At(bytes, 4)),
               y |-> I16FromPair(At(bytes, 5), At(bytes, 6)),
               z |-> I16FromPair(At(bytes, 7), At(bytes, 8))],
     temp |-> AsI8(At(bytes, 1))]

\* gyro(): the I16x3 built from the 7-byte burst
GyroDecode(bytes) ==
    [x |-> I16FromPair(At(bytes, 1), At(bytes, 2)),
     y |-> I16FromPair(At(bytes, 3), At(bytes, 4)),
     z |-> I16FromPair(At(bytes, 5), At(bytes, 6))]

----------------------------------------------------------------------------
(* The three register accesses and the buffers they hand to the bus.       *)

\* a byte of a buffer that was never written (mem::uninitialized)
Uninit == -1

ReadRegister(reg) == [fn |-> "read_register", reg |-> reg, n |-> 2, byte |-> 0]

ReadRegisters(reg, n) == [fn |-> "read_registers", reg |-> reg, n |-> n, byte |-> 0]

WriteRegister(reg, byte) == [fn |-> "write_register", reg |-> reg, n |-> 2, byte |-> byte]

ReadRegisterBuffer(reg) == <<BitOr(BitOr(reg, SINGLE), READ), 0>>

ReadRegistersBufferSingle(reg, n) ==
    <<BitOr(BitOr(reg, SINGLE), READ)>> \o [i \in 1 .. n - 1 |-> Uninit]

\* only slice[0] is written before the transfer
ReadRegistersBuffer(reg, n) ==
    <<BitOr(BitOr(reg, MULTI), READ)>> \o [i \in 1 .. n - 1 |-> Uninit]

WriteRegisterBufferReadFlag(reg, byte) == <<BitOr(BitOr(reg, SINGLE), READ), byte>>

WriteRegisterBuffer(reg, byte) == <<BitOr(BitOr(reg, SINGLE), WRITE), byte>>

TxBuffer(a) ==
    CASE a.fn = "read_register" -> ReadRegisterBuffer(a.reg)
      [] a.fn = "read_registers" -> ReadRegistersBuffer(a.reg, a.n)
      [] a.fn = "write_register" -> WriteRegisterBuffer(a.reg, a.byte)

----------------------------------------------------------------------------
(* change_config: the mask, the shifted bits and the byte written back.    *)

Setters == {"set_odr", "set_bandwidth", "set_scale"}

ConfigWidth(o) ==
    CASE o = "set_odr" -> OdrWidth
      [] o = "set_bandwidth" -> BandwidthWidth
      [] o = "set_scale" -> ScaleWidth

ConfigShift(o) ==
    CASE o = "set_odr" -> OdrShift
      [] o = "set_bandwidth" -> BandwidthShift
      [] o = "set_scale" -> ScaleShift

ConfigValue(o, v) ==
    CASE o = "set_odr" -> OdrValue(v)
      [] o = "set_bandwidth" -> BandwidthValue(v)
      [] o = "set_scale" -> ScaleValue(v)

ConfigReg(o) ==
    CASE o = "set_odr" -> CTRL_REG1
      [] o = "set_bandwidth" -> CTRL_REG1
      [] o = "set_scale" -> CTRL_REG4

ConfigMaskUnshifted(o) == BitValueMask(ConfigWidth(o))

\* let mask = B::mask() << B::shift();
ConfigMask(o) == Shl8(BitValueMask(ConfigWidth(o)), ConfigShift(o))

\* let bits = (bits.value() << B::shift()) & mask;
ConfigBits(o, v) == BitAnd(Shl8(ConfigValue(o, v), ConfigShift(o)), ConfigMask(o))

ChangeConfigOverwrite(current, mask, bits) == bits

\* let masked = current & !mask; let new_reg = masked | bits;
ChangeConfigNewReg(current, mask, bits) == BitOr(BitAnd(current, BitNot8(mask)), bits)

----------------------------------------------------------------------------
(* The bus and the device behind it.                                       *)

\* transport errors the bus may report
Errors == {"E1", "E2"}

\* what the device shifts out while the control byte is shifted in
EchoVals == {0, 255}

\* payload bytes of a scripted burst response
ByteVals == {18, 52, 255}

\* contents of the output registers of the register-file device
RegVals == {18, 52, 255}

\* what an earlier program may have left in a control register
PriorBytes == {0, 255}

OutRegs == OUT_TEMP .. OUT_Z_H

Writable == {CTRL_REG1, CTRL_REG4}

RegFile(c1, c4, out) ==
    [a \in {WHO_AM_I, CTRL_REG1, CTRL_REG4} \cup OutRegs |->
        CASE a = WHO_AM_I -> 212
          [] a = CTRL_REG1 -> c1
          [] a = CTRL_REG4 -> c4
          [] OTHER -> out[a]]

RegAt(r, a) == IF a \in DOMAIN r THEN r[a] ELSE 0

\* the register file answers a read: with MULTI the address auto-increments
DeviceRead(r, tx) ==
    LET addr  == tx[1] % 64
        multi == BitAnd(tx[1], MULTI) # 0
    IN  { <<e>> \o [i \in 1 .. Len(tx) - 1 |->
                       RegAt(r, IF multi THEN addr + (i - 1) ELSE addr)]
          : e \in EchoVals }

\* a test double answers with any bytes
ScriptedRead(tx) ==
    { <<e>> \o s : e \in EchoVals,
                   s \in [1 .. Len(tx) - 1 -> IF Len(tx) = 2 THEN Byte ELSE ByteVals] }

Responses(tx) == IF device = "registers" THEN DeviceRead(regs, tx) ELSE ScriptedRead(tx)

\* the register file takes a single write
DeviceStore(r, tx) ==
    LET addr == tx[1] % 64
    IN  IF device = "registers" /\ BitAnd(tx[1], READ) = 0 /\ addr \in Writable
        THEN [r EXCEPT ![addr] = tx[2]]
        ELSE r

----------------------------------------------------------------------------
(* Results.                                                                *)

Pending == [status |-> "pending", val |-> "none", err |-> "none"]

Ok(v) == [status |-> "ok", val |-> v, err |-> "none"]

PropagateFixed(e) == [status |-> "err", val |-> "none", err |-> "E1"]

\* the `?` operator: the transport's error is the operation's error
Propagate(e) == [status |-> "err", val |-> "none", err |-> e]

\* what each public operation makes of its last access's buffer
Finish(o, bytes) ==
    CASE o = "new" -> "handle"
      [] o = "all" -> AllDecode(bytes)
      [] o = "gyro" -> GyroDecode(bytes)
      [] o = "temp" -> AsI8(At(bytes, 1))
      [] o = "who_am_i" -> At(bytes, 1)
      [] o = "status" -> StatusFromU8(At(bytes, 1))
      [] o = "odr" -> OdrFromU8(At(bytes, 1))
      [] o = "bandwidth" -> BandwidthFromU8(At(bytes, 1))
      [] o = "scale" -> ScaleFromU8(At(bytes, 1))
      [] o \in Setters -> "self"

FieldOf(o) ==
    CASE o = "set_odr" -> "odr"
      [] o = "set_bandwidth" -> "bandwidth"
      [] o = "set_scale" -> "scale"

Unset == [odr |-> "unset", bandwidth |-> "unset", scale |-> "unset"]

LogEntry(call, tx, ok, err, rx) ==
    [call |-> call, tx |-> tx, ok |-> ok, err |-> err, rx |-> rx, cs |-> cs]

FirstBus(call, tx, ok) ==
    IF firstBus = <<>> THEN <<[call |-> call, tx |-> tx, ok |-> ok]>> ELSE firstBus

\* the counter saturates: MaxSelCalls stands for "MaxSelCalls or more"
MaxSelCalls == 2

BusCall == IF selCalls < MaxSelCalls THEN selCalls + 1 ELSE selCalls

----------------------------------------------------------------------------
(* The state machine.                                                      *)

RegisterFiles(ctrl, out) ==
    { RegFile(c1, c4, o) : c1 \in ctrl, c4 \in ctrl, o \in [OutRegs -> out] }

InitDriver ==
    /\ handle = "none"
    /\ cs = "high"
    /\ op = "none"
    /\ arg = "none"
    /\ pc = "idle"
    /\ acc = WriteRegister(0, 0)
    /\ buffer = <<>>
    /\ result = Pending
    /\ log = <<>>
    /\ firstBus = <<>>
    /\ selCalls = 0
    /\ faults = FALSE
    /\ lastSet = Unset
    /\ lastAll = <<>>

\* either device, the register file's output registers at rest
Init ==
    /\ device \in {"registers", "scripted"}
    /\ regs \in RegisterFiles(IF device = "registers" THEN PriorBytes ELSE {0}, {0})
    /\ InitDriver

\* the register file with any output registers
InitBurst ==
    /\ device = "registers"
    /\ regs \in RegisterFiles({0}, RegVals)
    /\ InitDriver

\* a public operation is entered and reaches its first register access
Begin(o, a, access) ==
    /\ pc = "idle"
    /\ op' = o
    /\ arg' = a
    /\ acc' = access
    /\ pc' = "set_low"
    /\ buffer' = <<>>
    /\ result' = Pending
    /\ log' = <<>>
    /\ UNCHANGED <<device, regs, cs, firstBus, selCalls, faults, lastSet, lastAll>>

New ==
    /\ handle = "none"
    /\ handle' = "constructing"
    /\ Begin("new", "none", WriteRegister(CTRL_REG1, PowerUpAllAxes))

All ==
    /\ handle = "ready"
    /\ UNCHANGED handle
    /\ Begin("all", "none", ReadRegisters(OUT_TEMP, 9))

Gyro ==
    /\ handle = "ready"
    /\ UNCHANGED handle
    /\ Begin("gyro", "none", ReadRegisters(OUT_X_L, 7))

Temp ==
    /\ handle = "ready"
    /\ UNCHANGED handle
    /\ Begin("temp", "none", ReadRegister(OUT_TEMP))

WhoAmI ==
    /\ handle = "ready"
    /\ UNCHANGED handle
    /\ Begin("who_am_i", "none", ReadRegister(WHO_AM_I))

Status ==
    /\ handle = "ready"
    /\ UNCHANGED handle
    /\ Begin("status", "none", ReadRegister(STATUS_REG))

GetOdr ==
    /\ handle = "ready"
    /\ UNCHANGED handle
    /\ Begin("odr", "none", ReadRegister(CTRL_REG1))

GetBandwidth ==
    /\ handle = "ready"
    /\ UNCHANGED handle
    /\ Begin("bandwidth", "none", ReadRegister(CTRL_REG1))

GetScale ==
    /\ handle = "ready"
    /\ UNCHANGED handle
    /\ Begin("scale", "none", ReadRegister(CTRL_REG4))

\* change_config up to its read_register call
SetOdr ==
    /\ handle = "ready"
    /\ UNCHANGED handle
    /\ \E v \in OdrVariants :
          Begin("set_odr", v, ReadRegister(CTRL_REG1))

SetBandwidth ==
    /\ handle = "ready"
    /\ UNCHANGED handle
    /\ \E v \in BandwidthVariants :
          Begin("set_bandwidth", v, ReadRegister(CTRL_REG1))

SetScale ==
    /\ handle = "ready"
    /\ UNCHANGED handle
    /\ \E v \in ScaleVariants :
          Begin("set_scale", v, ReadRegister(CTRL_REG4))

\* self.cs.set_low()
SetLow ==
    /\ pc = "set_low"
    /\ cs' = "low"
    /\ selCalls' = IF cs = "high" THEN 0 ELSE selCalls
    /\ pc' = "bus"
    /\ UNCHANGED <<device, regs, handle, op, arg, acc, buffer, result, log,
                   firstBus, faults, lastSet, lastAll>>

\* the operation returns Err(e): nothing after the `?` runs
ReturnErr(e) ==
    /\ result' = Propagate(e)
    /\ pc' = "idle"
    /\ handle' = IF op = "new" THEN "dropped" ELSE handle
    /\ faults' = TRUE
    /\ UNCHANGED <<device, cs, op, arg, acc, buffer, lastAll>>

\* self.spi.transfer(..) succeeds: the buffer now holds the response
SpiTransferOk ==
    /\ pc = "bus"
    /\ acc.fn \in {"read_register", "read_registers"}
    /\ \E rx \in Responses(TxBuffer(acc)) :
          /\ buffer' = rx
          /\ log' = Append(log, LogEntry("transfer", TxBuffer(acc), TRUE, "none", rx))
    /\ firstBus' = FirstBus("transfer", TxBuffer(acc), TRUE)
    /\ selCalls' = BusCall
    /\ pc' = "set_high"
    /\ UNCHANGED <<device, regs, handle, cs, op, arg, acc, result, faults,
                   lastSet, lastAll>>

\* self.spi.transfer(..)? fails
SpiTransferErr ==
    /\ pc = "bus"
    /\ acc.fn \in {"read_register", "read_registers"}
    /\ \E e \in Errors :
          /\ log' = Append(log, LogEntry("transfer", TxBuffer(acc), FALSE, e, <<>>))
          /\ ReturnErr(e)
    /\ firstBus' = FirstBus("transfer", TxBuffer(acc), FALSE)
    /\ selCalls' = BusCall
    /\ UNCHANGED <<regs, lastSet>>

\* self.spi.write(..) succeeds
SpiWriteOk ==
    /\ pc = "bus"
    /\ acc.fn = "write_register"
    /\ regs' = DeviceStore(regs, TxBuffer(acc))
    /\ log' = Append(log, LogEntry("write", TxBuffer(acc), TRUE, "none", <<>>))
    /\ firstBus' = FirstBus("write", TxBuffer(acc), TRUE)
    /\ selCalls' = BusCall
    /\ pc' = "set_high"
    /\ UNCHANGED <<device, handle, cs, op, arg, acc, buffer, result, faults,
                   lastSet, lastAll>>

\* self.spi.write(..)? fails; the byte may or may not have reached the device
SpiWriteErr ==
    /\ pc = "bus"
    /\ acc.fn = "write_register"
    /\ \E e \in Errors :
          /\ log' = Append(log, LogEntry("write", TxBuffer(acc), FALSE, e, <<>>))
          /\ ReturnErr(e)
    /\ \E stored \in BOOLEAN :
          regs' = IF stored THEN DeviceStore(regs, TxBuffer(acc)) ELSE regs
    /\ firstBus' = FirstBus("write", TxBuffer(acc), FALSE)
    /\ selCalls' = BusCall
    /\ lastSet' = IF op \in Setters /\ device = "registers"
                  THEN [lastSet EXCEPT ![FieldOf(op)] = "unset"]
                  ELSE lastSet

CsAfterAccessLow == "low"

\* self.cs.set_high()
CsAfterAccess == "high"

\* change_config after its read: set_high, compute new_reg, enter write_register
ChangeConfigWrite ==
    /\ pc = "set_high"
    /\ op \in Setters
    /\ acc.fn = "read_register"
    /\ cs' = CsAfterAccess
    /\ acc' = WriteRegister(acc.reg,
                  ChangeConfigNewReg(At(buffer, 1), ConfigMask(op), ConfigBits(op, arg)))
    /\ pc' = "set_low"
    /\ UNCHANGED <<device, regs, handle, op, arg, buffer, result, log,
                   firstBus, selCalls, faults, lastSet, lastAll>>

\* the last access of an operation: set_high, then the operation returns Ok
SetHighReturn ==
    /\ pc = "set_high"
    /\ ~(op \in Setters /\ acc.fn = "read_register")
    /\ cs' = CsAfterAccess
    /\ result' = Ok(Finish(op, buffer))
    /\ pc' = "idle"
    /\ handle' = IF op = "new" THEN "ready" ELSE handle
    /\ lastSet' = IF op \in Setters /\ device = "registers"
                  THEN [lastSet EXCEPT ![FieldOf(op)] = arg]
                  ELSE lastSet
    /\ lastAll' = IF op = "all" /\ device = "registers"
                  THEN <<Finish(op, buffer)>> ELSE lastAll
    /\ UNCHANGED <<device, regs, op, arg, acc, buffer, log, firstBus, selCalls, faults>>

Access ==
    \/ SetLow
    \/ SpiTransferOk
    \/ SpiTransferErr
    \/ SpiWriteOk
    \/ SpiWriteErr
    \/ SetHighReturn

Next ==
    \/ New
    \/ All
    \/ Gyro
    \/ Temp
    \/ WhoAmI
    \/ Status
    \/ GetOdr
    \/ GetBandwidth
    \/ GetScale
    \/ SetOdr
    \/ SetBandwidth
    \/ SetScale
    \/ ChangeConfigWrite
    \/ Access

NextBurst ==
    \/ New
    \/ All
    \/ Gyro
    \/ Temp
    \/ Access

Spec == Init /\ [][Next]_vars

SpecBurst == InitBurst /\ [][NextBurst]_vars

----------------------------------------------------------------------------
(* Properties.                                                             *)

ReturnedOk(o) == pc = "idle" /\ op = o /\ result.status = "ok"

ReturnedErr(o) == pc = "idle" /\ op = o /\ result.status = "err"

\* low | (high << 8) read as a two's-complement 16-bit value
LittleEndianI16(low, high) ==
    LET u == low + 256 * high IN IF u >= 32768 THEN u - 65536 ELSE u

\* a byte read as a two's-complement 8-bit value
SignedByte(b) == IF b >= 128 THEN b - 256 ELSE b

\* C1: whenever an operation has returned, with Ok or with an error,
\* chip-select is high.
C1_CsHighOnEveryReturn == pc = "idle" => cs = "high"

\* the register and the field mask the claim names for each setter
C2_Reg(o) == IF o = "set_scale" THEN 35 ELSE 32

C2_FieldMask(o) == IF o = "set_odr" THEN 192 ELSE 48

\* C2: a setter issues a single read of its register and then, if the read
\* succeeded, a single write to the same register whose byte equals the byte
\* read in every bit outside the field's mask (0xC0 data rate, 0x30 bandwidth,
\* 0x30 scale); a setter that returned Ok issued exactly that read and that
\* write and nothing else.
C2_SetterReadModifyWrite ==
    op \in Setters =>
        /\ Len(log) <= 2
        /\ Len(log) >= 1 =>
              /\ log[1].call = "transfer"
              /\ log[1].tx = <<C2_Reg(op) + 128, 0>>
        /\ Len(log) = 2 =>
              /\ log[1].ok
              /\ log[2].call = "write"
              /\ Len(log[2].tx) = 2
              /\ log[2].tx[1] = C2_Reg(op)
              /\ BitAnd(log[2].tx[2], 255 - C2_FieldMask(op))
                   = BitAnd(log[1].rx[2], 255 - C2_FieldMask(op))
        /\ ReturnedOk(op) => Len(log) = 2 /\ log[2].ok

\* set_scale(Dps250) read 0xFF from CTRL_REG4 and wrote 0xCF back
C2_Witness ==
    /\ ReturnedOk("set_scale")
    /\ arg = "Dps250"
    /\ log[1].rx[2] = 255
    /\ log[2].tx[2] = 207

\* C3: against the register file, a getter that returns Ok returns the
\* variant the matching setter last stored successfully, whatever other
\* fields were set since.
C3_GetterReturnsLastSet ==
    device = "registers" /\ pc = "idle" /\ result.status = "ok" =>
        /\ op = "odr" /\ lastSet.odr # "unset" => result.val = lastSet.odr
        /\ op = "bandwidth" /\ lastSet.bandwidth # "unset" =>
              result.val = lastSet.bandwidth
        /\ op = "scale" /\ lastSet.scale # "unset" => result.val = lastSet.scale

\* bandwidth() returns Maximum with data rate and scale set as well
C3_Witness ==
    /\ device = "registers"
    /\ ReturnedOk("bandwidth")
    /\ result.val = "Maximum"
    /\ lastSet = [odr |-> "Hz380", bandwidth |-> "Maximum", scale |-> "Dps2000"]

\* all() issued one 9-byte burst read at OUT_TEMP
C4_OneBurstOfNine ==
    /\ Len(log) = 1
    /\ log[1].call = "transfer"
    /\ Len(log[1].tx) = 9
    /\ log[1].tx[1] = 38 + 128 + 64
    /\ Len(log[1].rx) = 9

\* C4 as claimed: all() decodes response byte 1 as the temperature and the
\* axes as little-endian pairs starting at byte 2, so bytes 2 and 3 being
\* 0x34 and 0x12 give x = 4660.
C4_AxesFromByte2 ==
    ReturnedOk("all") =>
        /\ C4_OneBurstOfNine
        /\ LET rx == log[1].rx
           IN  /\ result.val.temp = SignedByte(At(rx, 1))
               /\ result.val.gyro.x = LittleEndianI16(At(rx, 2), At(rx, 3))
               /\ result.val.gyro.y = LittleEndianI16(At(rx, 4), At(rx, 5))
               /\ result.val.gyro.z = LittleEndianI16(At(rx, 6), At(rx, 7))
               /\ At(rx, 2) = 52 /\ At(rx, 3) = 18 => result.val.gyro.x = 4660

\* C4 amended: all() decodes response byte 1 as the temperature, discards
\* bytes 0 and 2, and decodes the axes as little-endian pairs starting at
\* byte 3 (x from bytes 3 and 4, y from 5 and 6, z from 7 and 8), so bytes 3
\* and 4 being 0x34 and 0x12 give x = 4660.
C4_AxesFromByte3 ==
    ReturnedOk("all") =>
        /\ C4_OneBurstOfNine
        /\ LET rx == log[1].rx
           IN  /\ result.val.temp = SignedByte(At(rx, 1))
               /\ result.val.gyro.x = LittleEndianI16(At(rx, 3), At(rx, 4))
               /\ result.val.gyro.y = LittleEndianI16(At(rx, 5), At(rx, 6))
               /\ result.val.gyro.z = LittleEndianI16(At(rx, 7), At(rx, 8))
               /\ At(rx, 3) = 52 /\ At(rx, 4) = 18 => result.val.gyro.x = 4660

\* all() returned x = 4660 from bytes 3 and 4 with another byte at index 2
C4_Witness ==
    /\ ReturnedOk("all")
    /\ At(log[1].rx, 2) = 255
    /\ At(log[1].rx, 3) = 52
    /\ At(log[1].rx, 4) = 18
    /\ result.val.gyro.x = 4660
    /\ result.val.temp = -1

\* C5: gyro() issues one 7-byte transfer whose first byte is 0x28 | 0xC0 and
\* returns x, y, z as the two's-complement value low | (high << 8) of the
\* response byte pairs (1,2), (3,4), (5,6); the sum low + (high << 8) stays
\* within 16 bits, and the pair 0xFF, 0xFF gives -1.
C5_GyroDecode ==
    ReturnedOk("gyro") =>
        /\ Len(log) = 1
        /\ log[1].call = "transfer"
        /\ Len(log[1].tx) = 7
        /\ log[1].tx[1] = 232
        /\ LET rx == log[1].rx
           IN  /\ Len(rx) = 7
               /\ result.val.x = LittleEndianI16(At(rx, 1), At(rx, 2))
               /\ result.val.y = LittleEndianI16(At(rx, 3), At(rx, 4))
               /\ result.val.z = LittleEndianI16(At(rx, 5), At(rx, 6))
               /\ \A i \in {1, 3, 5} :
                     /\ At(rx, i) + 256 * At(rx, i + 1) < 65536
                     /\ BitOr(At(rx, i), 256 * At(rx, i + 1))
                          = At(rx, i) + 256 * At(rx, i + 1)
               /\ At(rx, 1) = 255 /\ At(rx, 2) = 255 => result.val.x = -1

\* gyro() returned -1 from 0xFF, 0xFF and 4660 from 0x34, 0x12
C5_Witness ==
    /\ ReturnedOk("gyro")
    /\ At(log[1].rx, 1) = 255 /\ At(log[1].rx, 2) = 255
    /\ At(log[1].rx, 3) = 52 /\ At(log[1].rx, 4) = 18
    /\ result.val.x = -1
    /\ result.val.y = 4660

\* C6: the first bus call ever is new()'s write of [0x20, 0x0F], and new()
\* issues that one call only; if it fails new() returns the error and the
\* driver is dropped for good, if it succeeds the handle is ready; every
\* other operation runs on a ready handle whose initial write succeeded.
C6_NewWritesOnceFirst ==
    /\ firstBus # <<>> =>
          firstBus[1].call = "write" /\ firstBus[1].tx = <<32, 15>>
    /\ op = "new" =>
          /\ Len(log) <= 1
          /\ pc \in {"set_high", "idle"} =>
                Len(log) = 1 /\ log[1].call = "write" /\ log[1].tx = <<32, 15>>
    /\ ReturnedErr("new") => handle = "dropped" /\ ~log[1].ok /\ result.err = log[1].err
    /\ ReturnedOk("new") => handle = "ready" /\ log[1].ok
    /\ handle = "dropped" => ReturnedErr("new")
    /\ handle = "ready" => firstBus # <<>> /\ firstBus[1].ok
    /\ op \notin {"none", "new"} => handle = "ready"

\* new() failed: the write of [0x20, 0x0F] was issued and the driver dropped
C6_Witness ==
    /\ handle = "dropped"
    /\ ReturnedErr("new")
    /\ log[1].tx = <<32, 15>>
    /\ ~firstBus[1].ok

\* C7: scale() decodes every register byte to a variant: field code 0 (bits
\* 5..4 of CTRL_REG4) gives Dps250, 1 gives Dps500, 2 and 3 give Dps2000;
\* odr() and bandwidth() return a variant for every byte too.
C7_DecodersTotal ==
    /\ ReturnedOk("scale") =>
          LET code == (At(log[1].rx, 1) \div 16) % 4
          IN  result.val = CASE code = 0 -> "Dps250"
                             [] code = 1 -> "Dps500"
                             [] code = 2 -> "Dps2000"
                             [] code = 3 -> "Dps2000"
    /\ ReturnedOk("odr") => result.val \in OdrVariants
    /\ ReturnedOk("bandwidth") => result.val \in BandwidthVariants

\* scale() read a byte with field code 0b10 and returned Dps2000
C7_Witness ==
    /\ ReturnedOk("scale")
    /\ (At(log[1].rx, 1) \div 16) % 4 = 2
    /\ result.val = "Dps2000"

\* C8: as long as no transport call has failed, every bus call is issued
\* with chip-select low, a chip-select-low interval holds at most one bus
\* call, every access lowers chip-select from high (the access before it was
\* closed), and chip-select is low exactly between set_low and set_high.
C8_OneCallPerSelect ==
    ~faults =>
        /\ \A i \in DOMAIN log : log[i].cs = "low"
        /\ selCalls <= 1
        /\ pc = "set_low" => cs = "high"
        /\ pc = "bus" => cs = "low" /\ selCalls = 0
        /\ pc = "set_high" => cs = "low" /\ selCalls = 1
        /\ pc = "idle" => cs = "high"

\* a setter returned Ok after its read and its write, no call having failed
C8_Witness ==
    /\ ~faults
    /\ ReturnedOk("set_bandwidth")
    /\ Len(log) = 2
    /\ cs = "high"

\* what C9 says of a state
C9_State ==
    /\ \A i \in DOMAIN log : ~log[i].ok => i = Len(log) /\ pc = "idle"
    /\ pc = "idle" /\ result.status = "err" =>
          /\ Len(log) >= 1
          /\ ~log[Len(log)].ok
          /\ result.err = log[Len(log)].err
    /\ pc = "idle" /\ result.status = "ok" => \A i \in DOMAIN log : log[i].ok
    /\ op \in Setters /\ Len(log) >= 1 /\ ~log[1].ok => Len(log) = 1

\* C9: a failed transport call is the last bus call of its operation, which
\* returns that call's error; an operation that returned an error has
\* exactly one failed call; a setter whose read failed issued no write; and
\* the device's registers change only in a step that issues a write.
C9_ErrorPropagatedNoRetry ==
    [][/\ C9_State'
       /\ regs' # regs =>
             /\ Len(log') = Len(log) + 1
             /\ log'[Len(log')].call = "write"]_vars

\* set_odr's read failed against the register file: one call, the error E2
C9_Witness ==
    /\ device = "registers"
    /\ ReturnedErr("set_odr")
    /\ Len(log) = 1
    /\ log[1].call = "transfer"
    /\ result.err = "E2"

\* C10: against the register file, whose output registers do not change,
\* gyro() returns the triple all() returned and temp() returns the
\* temperature all() returned.
C10_AllAgreesWithSeparateReads ==
    device = "registers" /\ lastAll # <<>> /\ pc = "idle" /\ result.status = "ok" =>
        /\ op = "gyro" => result.val = lastAll[1].gyro
        /\ op = "temp" => result.val = lastAll[1].temp

\* gyro() returned (4660, -1, z) after all() had returned the same triple
C10_Witness ==
    /\ device = "registers"
    /\ ReturnedOk("gyro")
    /\ lastAll # <<>>
    /\ result.val.x = 4660
    /\ result.val.y = -1
    /\ lastAll[1].gyro = result.val
    /\ regs[OUT_TEMP] # regs[STATUS_REG]

====
